---- MODULE Spec2Model ----
(***************************************************************************)
(* Model of the ticket backend (backend/server.js, backend/models/         *)
(* Purchase.js): the Paystack webhook handler as a state machine.  Each     *)
(* in-flight webhook request is one asynchronous handler invocation whose   *)
(* position (pc) moves from one await point to the next; the Purchase       *)
(* collection (the ledger) is the only state shared between requests.       *)
(***************************************************************************)
EXTENDS Integers, Sequences, FiniteSets, TLC

(* ------------------------------ bounds --------------------------------- *)
\* number of webhook requests that can be in flight in one behaviour
NumRequests == 2
\* longest cart (number of lines) of a delivered event
MaxLines == 2
\* largest quantity of one cart line
MaxQuantity == 2
\* largest number of tickets of one cart
MaxUnits == 3
\* largest number of tickets of a cart delivered while another request is in flight
MaxConcurrentUnits == 1
\* number of payment-initialization requests in one behaviour
NumPayRequests == 2

(* ------------------------------ values --------------------------------- *)
\* JavaScript undefined for a string-valued field (item.type, full_name)
Undefined == "undefined"
\* event.data.metadata of an event that carries none
NoMetadata == [undefined |-> TRUE]
\* a request without the x-paystack-signature header
NoHeader == <<"undefined">>
\* no ticket identifier (outside a unit's try block)
NoTicket == <<>>

Requests == 1..NumRequests

\* process.env.PAYSTACK_SECRET_KEY, and a key that is not the server's
PAYSTACK_SECRET_KEY == "sk_server"
ForeignKey == "sk_other"

References == {"abc123", "xyz789"}

\* item.type as sent by the frontend; Undefined is an item without a type
TicketTypes == {"regular", "vip"}
ItemTypes == TicketTypes \cup {Undefined}

\* crypto.randomBytes(4).toString('hex').toUpperCase(): the values drawn here
RandomHex == {"0000000A", "0000000B"}

NameOfType(t) ==
  CASE t = "regular" -> "Regular Ticket"
    [] t = "vip" -> "VIP Ticket"
    [] OTHER -> "Ticket"

CartItem(t, q) == [type |-> t, quantity |-> q, name |-> NameOfType(t)]

CartItems == {CartItem(t, q) : t \in ItemTypes, q \in 0..MaxQuantity}

RECURSIVE SumQuantity(_)
SumQuantity(cart) ==
  IF cart = <<>> THEN 0 ELSE Head(cart).quantity + SumQuantity(Tail(cart))

Carts ==
  {c \in UNION {[1..n -> CartItems] : n \in 0..MaxLines} : SumQuantity(c) <= MaxUnits}

\* the customer, buyer name and amount of a transaction are those of its reference
EmailOf(r) == IF r = "abc123" THEN "a@x.com" ELSE "b@y.com"
FullNameOf(r) == IF r = "abc123" THEN "Jane Doe" ELSE "John Roe"
AmountOf(r) == IF r = "abc123" THEN 500000 ELSE 750000

Event(type, r, metadata) ==
  [event |-> type,
   data |-> [customer |-> [email |-> EmailOf(r)],
             metadata |-> metadata,
             reference |-> r,
             amount |-> AmountOf(r)]]

Metadata(name, cart) == [full_name |-> name, cart |-> cart]

OneTicket == <<CartItem("regular", 1)>>

\* the JSON documents posted to the webhook
SuccessEvents ==
  {Event("charge.success", r, Metadata(FullNameOf(r), c)) : r \in References, c \in Carts}
\* a charge.success whose metadata has no full_name
AnonymousEvents ==
  {Event("charge.success", r, Metadata(Undefined, OneTicket)) : r \in References}
\* a charge.success of a transaction that was initialised without metadata
BareEvents == {Event("charge.success", r, NoMetadata) : r \in References}
\* an event of another type
OtherEvents ==
  {Event("charge.failed", r, Metadata(FullNameOf(r), OneTicket)) : r \in References}
Bodies == SuccessEvents \cup AnonymousEvents \cup BareEvents \cup OtherEvents

\* the documents delivered concurrently: those with a short cart of regular tickets
IsShort(cart) ==
  /\ Len(cart) <= 1
  /\ SumQuantity(cart) <= MaxConcurrentUnits
  /\ \A k \in DOMAIN cart : cart[k].type = "regular"

ShortBodies ==
  {b \in Bodies : "cart" \in DOMAIN b.data.metadata => IsShort(b.data.metadata.cart)}

NoBody == Event(Undefined, Undefined, NoMetadata)

\* crypto.createHmac('sha512', secret).update(body).digest('hex'): a keyed
\* hash, one value per (key, message)
Hmac(secret, body) == <<"hmac-sha512", secret, body>>

\* the x-paystack-signature header of a request with this body: the
\* signature Paystack computes, one computed with another key, the signature
\* of another document, or no header at all
HeadersFor(body) ==
  {Hmac(PAYSTACK_SECRET_KEY, body),
   Hmac(ForeignKey, body),
   Hmac(PAYSTACK_SECRET_KEY, NoBody),
   NoHeader}

\* String.prototype.toUpperCase on a ticket type
ToUpperCase(t) ==
  CASE t = "regular" -> "REGULAR"
    [] t = "vip" -> "VIP"

(* ------------------------------ state ---------------------------------- *)
VARIABLES
  ledger,    \* the Purchase collection: documents in insertion order
  req,       \* req[n]: the handler invocation of webhook request n
  pay        \* pay[p]: the handler invocation of POST /api/pay request p

vars == <<ledger, req, pay>>

IdleRequest ==
  [pc |-> "idle",          \* position of the handler
   body |-> NoBody,        \* req.body
   header |-> NoHeader,    \* req.headers['x-paystack-signature']
   during |-> {},          \* the requests in flight when this one arrived
   verified |-> FALSE,     \* the signature check has passed
   saved |-> "none",       \* outcome of newPurchase.save()
   line |-> 1,             \* position of `for (const item of cart)`
   i |-> 0,                \* `let i` of the inner loop
   ticketId |-> NoTicket,  \* ticketId of the unit in progress
   units |-> <<>>,         \* units whose try block has ended, in order
   sent |-> <<>>,          \* messages accepted by sgMail.send, in order
   responses |-> <<>>]     \* statuses passed to res.sendStatus, in order

PayRequests == 1..NumPayRequests

\* the provider has not answered
NoReply == [pending |-> TRUE]

IdlePay ==
  [pc |-> "idle",          \* position of the handler
   body |-> <<>>,          \* req.body, parsed by express.json()
   forwarded |-> <<>>,     \* bodies posted to the provider's initialize endpoint
   reply |-> NoReply,      \* what the provider answered
   responses |-> <<>>]     \* responses sent, each a status and a JSON body

Init ==
  /\ ledger = <<>>
  /\ req = [n \in Requests |-> IdleRequest]
  /\ pay = [p \in PayRequests |-> IdlePay]

(* ------------------------ the webhook handler -------------------------- *)
\* an HTTP POST /api/paystack-webhook arrives; requests are numbered in
\* order of arrival
\* the handler of request m has not returned
InFlight(m) == req[m].pc \notin {"idle", "done", "crashed"}

ReceiveWebhook(n, bodies) ==
  /\ req[n].pc = "idle"
  /\ \A m \in Requests : m < n => req[m].pc # "idle"
  /\ \E body \in bodies : \E header \in HeadersFor(body) :
       req' = [req EXCEPT ![n] = [@ EXCEPT !.pc = "received", !.body = body,
                                           !.header = header,
                                           !.during = {m \in Requests : InFlight(m)}]]
  /\ UNCHANGED ledger

\* res.sendStatus(status)
SendStatus(r, status) == [r EXCEPT !.responses = Append(@, status)]

\* faulty variant: the handler only tests that the signature header is present
SignaturePresent(body, header) == header # NoHeader

\* hash !== req.headers['x-paystack-signature'], negated
SignatureMatches(body, header) == Hmac(PAYSTACK_SECRET_KEY, body) = header

\* faulty variant: the gate lets every charge event through
IsChargeEvent(event) == event.event \in {"charge.success", "charge.failed"}

\* event.event === 'charge.success'
IsChargeSuccess(event) == event.event = "charge.success"

\* metadata.cart throws a TypeError when metadata is undefined
HasMetadata(event) == "cart" \in DOMAIN event.data.metadata

\* faulty variant: newPurchase.save() is called without await, so the handler goes
\* straight on to the ticket loop
StartHandlerWithoutAwait(r) ==
  IF ~SignatureMatches(r.body, r.header)
  THEN [SendStatus(r, 401) EXCEPT !.pc = "done"]
  ELSE IF ~IsChargeSuccess(r.body)
  THEN [SendStatus(r, 200) EXCEPT !.pc = "done", !.verified = TRUE]
  ELSE IF ~HasMetadata(r.body)
  THEN [r EXCEPT !.pc = "crashed", !.verified = TRUE]
  ELSE [r EXCEPT !.pc = "loop", !.verified = TRUE]

\* faulty variant: the 401 is sent without return, the handler goes on
StartHandlerNoReturn(r) ==
  LET a == IF ~SignatureMatches(r.body, r.header) THEN SendStatus(r, 401) ELSE r
  IN IF ~IsChargeSuccess(a.body)
     THEN [SendStatus(a, 200) EXCEPT !.pc = "done", !.verified = TRUE]
     ELSE IF ~HasMetadata(a.body)
     THEN [a EXCEPT !.pc = "crashed", !.verified = TRUE]
     ELSE [a EXCEPT !.pc = "save", !.verified = TRUE]

\* the synchronous start of the handler, up to its first await: the signature
\* check, JSON.parse, the event type gate, the destructuring of event.data and
\* the call of newPurchase.save()
StartHandler(r) ==
  IF ~SignatureMatches(r.body, r.header)
  THEN [SendStatus(r, 401) EXCEPT !.pc = "done"]
  ELSE IF ~IsChargeSuccess(r.body)
  THEN [SendStatus(r, 200) EXCEPT !.pc = "done", !.verified = TRUE]
  ELSE IF ~HasMetadata(r.body)
  THEN [r EXCEPT !.pc = "crashed", !.verified = TRUE]
  ELSE [r EXCEPT !.pc = "save", !.verified = TRUE]

HandleWebhook(n) ==
  /\ req[n].pc = "received"
  /\ req' = [req EXCEPT ![n] = StartHandler(@)]
  /\ UNCHANGED ledger

\* faulty variant: the amount is stored in naira and the inventory loses its names
NewPurchaseConverted(event) ==
  [buyerName |-> event.data.metadata.full_name,
   buyerEmail |-> event.data.customer.email,
   inventory |-> [k \in DOMAIN event.data.metadata.cart |->
                    [ticketType |-> event.data.metadata.cart[k].type,
                     quantity |-> event.data.metadata.cart[k].quantity,
                     name |-> event.data.metadata.cart[k].type]],
   totalAmount |-> event.data.amount \div 100,
   paystackReference |-> event.data.reference]

\* new Purchase({...}) of the handler
NewPurchase(event) ==
  [buyerName |-> event.data.metadata.full_name,
   buyerEmail |-> event.data.customer.email,
   inventory |-> [k \in DOMAIN event.data.metadata.cart |->
                    [ticketType |-> event.data.metadata.cart[k].type,
                     quantity |-> event.data.metadata.cart[k].quantity,
                     name |-> event.data.metadata.cart[k].name]],
   totalAmount |-> event.data.amount,
   paystackReference |-> event.data.reference]

\* the `required: true` paths of PurchaseSchema
Validates(doc) ==
  /\ doc.buyerName # Undefined
  /\ doc.buyerEmail # Undefined
  /\ doc.paystackReference # Undefined

\* faulty variant: paystackReference is indexed without `unique: true`
DuplicateKeyNotEnforced(docs, doc) == FALSE

\* the unique index on paystackReference: the insert is refused (E11000) when
\* the collection holds a document with the same reference
DuplicateKey(docs, doc) ==
  \E k \in DOMAIN docs : docs[k].paystackReference = doc.paystackReference

\* faulty variant: the document is written with an upsert that matches any
\* document of the collection
InsertUpsert(docs, doc) ==
  IF docs = <<>> THEN <<doc>> ELSE [docs EXCEPT ![1] = doc]

\* the insert of a validated document with a new reference
Insert(docs, doc) == Append(docs, doc)

\* the code after the try/catch around save(): the ticket loop begins
BeginTickets(r) == [r EXCEPT !.pc = "loop", !.line = 1, !.i = 0]

\* faulty variant: the catch block tests for another error code
CatchDbErrorWrongCode(r, code) ==
  IF code = 11001
  THEN [SendStatus(r, 200) EXCEPT !.pc = "done"]
  ELSE BeginTickets(r)

\* faulty variant: the duplicate branch answers 200 without returning
CatchDbErrorNoReturn(r, code) ==
  IF code = 11000
  THEN BeginTickets(SendStatus(r, 200))
  ELSE BeginTickets(r)

\* faulty variant: every database error is answered 200 and ends the handler
CatchDbErrorAlwaysReturns(r, code) == [SendStatus(r, 200) EXCEPT !.pc = "done"]

\* catch (dbError): code 11000 answers 200 and returns, anything else is logged
CatchDbError(r, code) ==
  IF code = 11000
  THEN [SendStatus(r, 200) EXCEPT !.pc = "done"]
  ELSE BeginTickets(r)

\* what save() did: "recorded", "duplicate" (E11000) or "failure"
Saved(r, outcome) == [r EXCEPT !.saved = outcome]

\* await newPurchase.save() resolves or rejects: the document is validated,
\* then the database handles the insert
SaveCompletes(n) ==
  /\ req[n].pc = "save"
  /\ LET doc == NewPurchase(req[n].body) IN
       IF ~Validates(doc)
       THEN /\ req' = [req EXCEPT ![n] = CatchDbError(Saved(@, "failure"), 0)]
            /\ UNCHANGED ledger
       ELSE IF DuplicateKey(ledger, doc)
       THEN /\ req' = [req EXCEPT ![n] = CatchDbError(Saved(@, "duplicate"), 11000)]
            /\ UNCHANGED ledger
       ELSE /\ ledger' = Insert(ledger, doc)
            /\ req' = [req EXCEPT ![n] = BeginTickets(Saved(@, "recorded"))]

\* the database cannot be reached: save() rejects with a network error
SaveFails(n) ==
  /\ req[n].pc = "save"
  /\ req' = [req EXCEPT ![n] = CatchDbError(Saved(@, "failure"), 0)]
  /\ UNCHANGED ledger

\* faulty variant: the inner loop runs while i <= item.quantity
RECURSIVE NextPositionInclusive(_, _, _)
NextPositionInclusive(cart, line, i) ==
  IF line > Len(cart) THEN [line |-> line, i |-> 0]
  ELSE IF i <= cart[line].quantity THEN [line |-> line, i |-> i]
  ELSE NextPositionInclusive(cart, line + 1, 0)

\* the loop heads `for (const item of cart)` and `for (let i = 0; i <
\* item.quantity; i++)`: the position of the next unit at or after (line, i),
\* or line Len(cart) + 1 when no unit is left
RECURSIVE NextPosition(_, _, _)
NextPosition(cart, line, i) ==
  IF line > Len(cart) THEN [line |-> line, i |-> 0]
  ELSE IF i < cart[line].quantity THEN [line |-> line, i |-> i]
  ELSE NextPosition(cart, line + 1, 0)

CartOf(r) == r.body.data.metadata.cart

\* the end of one pass through the inner loop's body: i++
EndUnit(r, outcome) ==
  [r EXCEPT !.pc = "loop",
            !.units = Append(@, [line |-> r.line, i |-> r.i, outcome |-> outcome]),
            !.i = r.i + 1,
            !.ticketId = NoTicket]

\* faulty variant: one try/catch around both loops, so an error ends the loops
CatchTicketErrorOutsideLoops(r, step) ==
  [EndUnit(r, step) EXCEPT !.line = Len(CartOf(r)) + 1, !.i = 0]

\* faulty variant: the message is sent from the catch block as well
CatchTicketErrorSendsAnyway(r, step) ==
  EndUnit([r EXCEPT !.sent = Append(@, [to |-> r.body.data.customer.email,
                                        subject |-> CartOf(r)[r.line].name,
                                        full_name |-> r.body.data.metadata.full_name,
                                        ticketId |-> r.ticketId])],
          step)

\* catch (ticketError): the error is logged and the inner loop goes on
CatchTicketError(r, step) == EndUnit(r, step)

\* `ULES-${item.type.toUpperCase()}-${crypto.randomBytes(4)...}`
TicketId(type, hex) == <<"ULES", ToUpperCase(type), hex>>

\* the loop heads, then either the final res.sendStatus(200) or the start of
\* the next unit's try block: the identifier, and the call of qrcode.toDataURL
StepLoop(r, hex) ==
  LET pos == NextPosition(CartOf(r), r.line, r.i)
      at == [r EXCEPT !.line = pos.line, !.i = pos.i]
  IN IF pos.line > Len(CartOf(r))
     THEN [SendStatus(at, 200) EXCEPT !.pc = "done"]
     ELSE IF CartOf(r)[pos.line].type = Undefined
     THEN CatchTicketError(at, "ticketId")
     ELSE [at EXCEPT !.pc = "qrcode",
                     !.ticketId = TicketId(CartOf(r)[pos.line].type, hex)]

NextUnit(n) ==
  /\ req[n].pc = "loop"
  /\ \E hex \in RandomHex : req' = [req EXCEPT ![n] = StepLoop(@, hex)]
  /\ UNCHANGED ledger

\* await qrcode.toDataURL(...) resolves: the data URL is decoded and
\* sharp(baseTicketPath).composite(...).png().toBuffer() is called
QrcodeResolves(n) ==
  /\ req[n].pc = "qrcode"
  /\ req' = [req EXCEPT ![n] = [@ EXCEPT !.pc = "sharp"]]
  /\ UNCHANGED ledger

QrcodeRejects(n) ==
  /\ req[n].pc = "qrcode"
  /\ req' = [req EXCEPT ![n] = CatchTicketError(@, "qrcode")]
  /\ UNCHANGED ledger

\* faulty variant: the recipient is kept in a variable of the module, which
\* the latest request to arrive has overwritten
MessageToLatestCustomer(r) ==
  LET latest == CHOOSE n \in Requests :
                  /\ req[n].pc # "idle"
                  /\ \A m \in Requests : req[m].pc # "idle" => m <= n
  IN [to |-> req[latest].body.data.customer.email,
      subject |-> CartOf(r)[r.line].name,
      full_name |-> r.body.data.metadata.full_name,
      ticketId |-> r.ticketId]

\* the message of one unit
Message(r) ==
  [to |-> r.body.data.customer.email,
   subject |-> CartOf(r)[r.line].name,
   full_name |-> r.body.data.metadata.full_name,
   ticketId |-> r.ticketId]

\* faulty variant: sgMail.send(msg) is called without await, the loop goes on
\* while the message is on its way
CallSendWithoutAwait(r) ==
  [r EXCEPT !.pc = "loop", !.i = r.i + 1, !.ticketId = NoTicket]

\* await sgMail.send(msg): the handler is suspended until the promise settles
CallSend(r) == [r EXCEPT !.pc = "send"]

\* await sharp(...).toBuffer() resolves: the message is built and
\* sgMail.send(msg) is called
SharpResolves(n) ==
  /\ req[n].pc = "sharp"
  /\ req' = [req EXCEPT ![n] = CallSend(@)]
  /\ UNCHANGED ledger

\* the base image is missing or unreadable, or compositing fails
SharpRejects(n) ==
  /\ req[n].pc = "sharp"
  /\ req' = [req EXCEPT ![n] = CatchTicketError(@, "sharp")]
  /\ UNCHANGED ledger

\* await sgMail.send(msg) resolves: the transport has accepted the message
Delivered(r) == EndUnit([r EXCEPT !.sent = Append(@, Message(r))], "sent")

SendResolves(n) ==
  /\ req[n].pc = "send"
  /\ req' = [req EXCEPT ![n] = Delivered(@)]
  /\ UNCHANGED ledger

SendRejects(n) ==
  /\ req[n].pc = "send"
  /\ req' = [req EXCEPT ![n] = CatchTicketError(@, "send")]
  /\ UNCHANGED ledger

\* the transport never answers: the promise of sgMail.send stays pending
SendStalls(n) ==
  /\ req[n].pc = "send"
  /\ req' = [req EXCEPT ![n] = [@ EXCEPT !.pc = "stalled"]]
  /\ UNCHANGED ledger

Handle(n) ==
  \/ HandleWebhook(n)
  \/ SaveCompletes(n)
  \/ SaveFails(n)
  \/ NextUnit(n)
  \/ QrcodeResolves(n)
  \/ QrcodeRejects(n)
  \/ SharpResolves(n)
  \/ SharpRejects(n)
  \/ SendResolves(n)
  \/ SendRejects(n)
  \/ SendStalls(n)

\* concurrent deliveries
Next ==
  /\ \E n \in Requests :
       \/ ReceiveWebhook(n, ShortBodies)
       \/ Handle(n)
  /\ UNCHANGED pay

Spec == Init /\ [][Next]_vars

\* one delivery
NextSingle ==
  /\ \/ ReceiveWebhook(1, Bodies)
     \/ Handle(1)
  /\ UNCHANGED pay

SpecSingle == Init /\ [][NextSingle]_vars

(* ----------------------- payment initialization ------------------------ *)
PayFields == {"email", "name", "amount", "cart"}

\* JSON bodies with all four fields, empty strings, zero and the empty cart
\* among the values
FullPayBodies ==
  [email : {"", "a@x.com"}, name : {"", "Jane Doe"},
   amount : {0, 500000}, cart : {<<>>, OneTicket}]

\* the JSON body with the fields `has` of `full`; an absent field reads as
\* undefined
PayBody(full, has) == [f \in has |-> full[f]]

PayBodies ==
  {PayBody(full, has) : full \in FullPayBodies, has \in SUBSET PayFields}

\* a complete body
CompletePayBody ==
  [email |-> "a@x.com", name |-> "Jane Doe", amount |-> 500000, cart |-> OneTicket]

\* the bodies posted while webhooks are being handled
ShortPayBodies ==
  {CompletePayBody, PayBody(CompletePayBody, PayFields \ {"cart"})}

\* what https://api.paystack.co/transaction/initialize answers
ProviderReplies ==
  {[status |-> TRUE, message |-> "Authorization URL created",
    data |-> [authorization_url |-> "https://checkout.paystack.com/x"]],
   [status |-> FALSE, message |-> "Invalid key"]}

\* fetch or response.json() threw
Thrown == [thrown |-> TRUE]

ReceivePay(p, bodies) ==
  /\ pay[p].pc = "idle"
  /\ \A q \in PayRequests : q < p => pay[q].pc # "idle"
  /\ \E body \in bodies :
       pay' = [pay EXCEPT ![p] = [@ EXCEPT !.pc = "received", !.body = body]]
  /\ UNCHANGED <<ledger, req>>

\* res.status(status).json(json)
Respond(r, status, json) ==
  [r EXCEPT !.pc = "done",
            !.responses = Append(@, [status |-> status, json |-> json])]

\* faulty variant: the length of the cart is not tested
IsIncompleteIgnoringLength(body) ==
  \/ PayFields \ DOMAIN body # {}
  \/ body.email = ""
  \/ body.name = ""
  \/ body.amount = 0

\* !email || !name || !amount || !cart || cart.length === 0: undefined, the
\* empty string and 0 are falsy, an array is truthy whatever its length
IsIncomplete(body) ==
  \/ PayFields \ DOMAIN body # {}
  \/ body.email = ""
  \/ body.name = ""
  \/ body.amount = 0
  \/ Len(body.cart) = 0

\* the body of the request to the provider
Params(body) ==
  [email |-> body.email,
   amount |-> body.amount,
   metadata |-> [full_name |-> body.name, cart |-> body.cart],
   callback_url |-> "https://ticketgenerator-rho.vercel.app/pages/success.html"]

\* the synchronous start of the handler: the 400, or the call of fetch
StartPay(r) ==
  IF IsIncomplete(r.body)
  THEN Respond(r, 400, [message |-> "Email, name, amount, and cart are required."])
  ELSE [r EXCEPT !.pc = "fetch", !.forwarded = Append(@, Params(r.body))]

HandlePay(p) ==
  /\ pay[p].pc = "received"
  /\ pay' = [pay EXCEPT ![p] = StartPay(@)]
  /\ UNCHANGED <<ledger, req>>

\* the code after `const data = await response.json()`
AfterFetch(r, data) ==
  IF ~data.status
  THEN Respond(r, 500, [message |-> data.message])
  ELSE Respond(r, 200, data)

FetchResolves(p) ==
  /\ pay[p].pc = "fetch"
  /\ \E data \in ProviderReplies :
       pay' = [pay EXCEPT ![p] = AfterFetch([@ EXCEPT !.reply = data], data)]
  /\ UNCHANGED <<ledger, req>>

\* catch (error): fetch or response.json() rejects
FetchRejects(p) ==
  /\ pay[p].pc = "fetch"
  /\ pay' = [pay EXCEPT ![p] =
               Respond([@ EXCEPT !.reply = Thrown], 500,
                       [message |-> "An internal server error occurred."])]
  /\ UNCHANGED <<ledger, req>>

HandlePayment(p) ==
  \/ HandlePay(p)
  \/ FetchResolves(p)
  \/ FetchRejects(p)

\* payment initializations alone
NextPay ==
  \E p \in PayRequests :
    \/ ReceivePay(p, PayBodies)
    \/ HandlePayment(p)

SpecPay == Init /\ [][NextPay]_vars

\* concurrent deliveries and one payment initialization
NextAll ==
  \/ Next
  \/ ReceivePay(1, ShortPayBodies)
  \/ HandlePayment(1)

SpecAll == Init /\ [][NextAll]_vars

(* ============================ properties =============================== *)
\* the documents of the ledger that carry reference ref
PurchasesOf(ref) == {k \in DOMAIN ledger : ledger[k].paystackReference = ref}

ReferenceOf(n) == req[n].body.data.reference

\* request n has arrived with the signature of its body under the server's key
ValidlySigned(n) ==
  /\ req[n].pc # "idle"
  /\ req[n].header = Hmac(PAYSTACK_SECRET_KEY, req[n].body)

\* request n carries a validly signed charge.success event with metadata
SuccessDelivery(n) ==
  /\ ValidlySigned(n)
  /\ req[n].body.event = "charge.success"
  /\ "cart" \in DOMAIN req[n].body.data.metadata

\* request n has generated or sent nothing
NoFulfilment(n) ==
  /\ req[n].units = <<>>
  /\ req[n].sent = <<>>
  /\ req[n].ticketId = NoTicket
  /\ req[n].pc \notin {"loop", "qrcode", "sharp", "send", "stalled"}

\* request m short-circuited as a duplicate: answered 200, nothing fulfilled
ShortCircuited(m) ==
  /\ req[m].pc = "done"
  /\ req[m].responses = <<200>>
  /\ NoFulfilment(m)

\* request m arrived after the handler of request n had returned
After(n, m) == n < m /\ req[m].pc # "idle" /\ n \notin req[m].during

\* requests n and m were in flight at the same time
Concurrent(n, m) ==
  \/ n < m /\ req[m].pc # "idle" /\ n \in req[m].during
  \/ m < n /\ req[n].pc # "idle" /\ m \in req[n].during

\* C1: in every reachable state the ledger holds at most one Purchase for any
\* paystackReference, whatever was delivered and however it was interleaved
C1_AtMostOnePurchasePerReference ==
  \A ref \in References : Cardinality(PurchasesOf(ref)) <= 1

\* C1 witness: two deliveries of one reference both reached the ledger; one
\* was recorded and the other refused
C1_Witness ==
  \E n, m \in Requests :
    /\ n # m
    /\ ReferenceOf(n) = ReferenceOf(m)
    /\ req[n].saved = "recorded"
    /\ req[m].saved = "duplicate"
    /\ Cardinality(PurchasesOf(ReferenceOf(n))) = 1

\* C2 as stated: of two validly signed charge.success deliveries of the same
\* event, the second arriving after the first has returned, exactly one Purchase
\* is persisted and the second short-circuits as a duplicate (200, no emails)
C2_SecondDeliveryAlwaysShortCircuits ==
  \A n, m \in Requests :
    ( /\ After(n, m)
      /\ SuccessDelivery(n) /\ SuccessDelivery(m)
      /\ req[n].body = req[m].body
      /\ req[n].pc = "done" /\ req[m].pc = "done" )
    => /\ Cardinality(PurchasesOf(ReferenceOf(m))) = 1
       /\ req[m].saved = "duplicate"
       /\ ShortCircuited(m)

\* C2 amended: the ledger never holds more than one Purchase for the reference,
\* and when the first delivery was recorded and the second delivery's insert
\* was answered by the ledger, the second is refused as a duplicate and
\* short-circuits: 200, no Purchase added, nothing generated, no email
C2_RecordedThenDuplicate ==
  \A n, m \in Requests :
    ( /\ After(n, m)
      /\ SuccessDelivery(n) /\ SuccessDelivery(m)
      /\ ReferenceOf(n) = ReferenceOf(m) )
    => /\ Cardinality(PurchasesOf(ReferenceOf(m))) <= 1
       /\ ( req[n].saved = "recorded" /\ req[m].saved \in {"recorded", "duplicate"}
            => /\ req[m].saved = "duplicate"
               /\ ShortCircuited(m)
               /\ Cardinality(PurchasesOf(ReferenceOf(m))) = 1 )

\* C2 witness: a redelivery after a recorded and emailed first delivery was
\* refused as a duplicate
C2_Witness ==
  \E n, m \in Requests :
    /\ After(n, m)
    /\ SuccessDelivery(n) /\ SuccessDelivery(m)
    /\ req[n].body = req[m].body
    /\ req[n].saved = "recorded" /\ req[n].pc = "done" /\ req[n].sent # <<>>
    /\ req[m].saved = "duplicate" /\ req[m].pc = "done"

\* C3 as stated: of two concurrently handled deliveries of one reference whose
\* ledger writes have completed, exactly one won the insert and the other
\* observed the duplicate and fulfils nothing
C3_ExactlyOneWinsTheInsert ==
  \A n, m \in Requests :
    ( /\ n # m /\ Concurrent(n, m)
      /\ SuccessDelivery(n) /\ SuccessDelivery(m)
      /\ ReferenceOf(n) = ReferenceOf(m)
      /\ req[n].saved # "none" /\ req[m].saved # "none" )
    => \/ req[n].saved = "recorded" /\ req[m].saved = "duplicate" /\ NoFulfilment(m)
       \/ req[m].saved = "recorded" /\ req[n].saved = "duplicate" /\ NoFulfilment(n)

\* C3 amended: of two concurrently handled deliveries of one reference at most
\* one wins the insert; one that observes the duplicate fulfils nothing; and when
\* both inserts were answered by the ledger and no other delivery had recorded
\* the reference, exactly one won and the other observed the duplicate
C3_AtMostOneWinsLoserSkips ==
  \A n, m \in Requests :
    ( /\ n # m /\ Concurrent(n, m)
      /\ SuccessDelivery(n) /\ SuccessDelivery(m)
      /\ ReferenceOf(n) = ReferenceOf(m) )
    => /\ ~(req[n].saved = "recorded" /\ req[m].saved = "recorded")
       /\ (req[m].saved = "duplicate" => ShortCircuited(m))
       /\ ( ( /\ req[n].saved \in {"recorded", "duplicate"}
              /\ req[m].saved \in {"recorded", "duplicate"}
              /\ \A k \in Requests \ {n, m} :
                   ~(req[k].saved = "recorded" /\ ReferenceOf(k) = ReferenceOf(n)) )
            => \/ req[n].saved = "recorded" /\ req[m].saved = "duplicate"
               \/ req[m].saved = "recorded" /\ req[n].saved = "duplicate" )

\* C3 witness: the later arrival won the insert while the earlier one was
\* still waiting for its save, and the earlier one was refused
C3_Witness ==
  \E n, m \in Requests :
    /\ n < m /\ Concurrent(n, m)
    /\ SuccessDelivery(n) /\ SuccessDelivery(m)
    /\ ReferenceOf(n) = ReferenceOf(m)
    /\ req[m].saved = "recorded"
    /\ req[n].saved = "duplicate" /\ ShortCircuited(n)

\* C4: a request whose signature header is not the hex HMAC-SHA512 of its
\* body under the secret (a missing header included) is answered 401 by a step
\* that changes nothing else, and no request saves, generates or sends anything
\* unless its signature is the HMAC of its body
C4_InvalidSignatureRejected ==
  /\ [][\A n \in Requests :
          ( /\ req[n].pc = "received"
            /\ req'[n] # req[n]
            /\ req[n].header # Hmac(PAYSTACK_SECRET_KEY, req[n].body) )
          => /\ ledger' = ledger
             /\ req' = [req EXCEPT ![n] = [@ EXCEPT !.pc = "done",
                                                   !.responses = <<401>>]]]_vars
  /\ [](\A n \in Requests :
          (req[n].saved # "none" \/ req[n].pc = "save" \/ ~NoFulfilment(n))
          => req[n].header = Hmac(PAYSTACK_SECRET_KEY, req[n].body))

\* C4 witness: a request signed with another key was answered 401 while a
\* validly signed request for another reference was being handled
C4_Witness ==
  \E n, m \in Requests :
    /\ req[n].pc = "done" /\ req[n].header = Hmac(ForeignKey, req[n].body)
    /\ req[n].responses = <<401>>
    /\ req[m].pc \in {"save", "loop"} /\ req[m].header = Hmac(PAYSTACK_SECRET_KEY, req[m].body)
    /\ ReferenceOf(n) # ReferenceOf(m)

\* C5: the step that handles a validly signed event whose type is not
\* charge.success answers 200 and changes nothing else: the ledger and every
\* other request are unchanged, nothing is generated and nothing is sent
C5_OtherEventOnlyAcknowledged ==
  /\ [][\A n \in Requests :
          ( /\ req[n].pc = "received"
            /\ req'[n] # req[n]
            /\ req[n].header = Hmac(PAYSTACK_SECRET_KEY, req[n].body)
            /\ req[n].body.event # "charge.success" )
          => /\ ledger' = ledger
             /\ req' = [req EXCEPT ![n] = [@ EXCEPT !.pc = "done",
                                                   !.verified = TRUE,
                                                   !.responses = <<200>>]]]_vars
  /\ [](\A n \in Requests :
          (ValidlySigned(n) /\ req[n].body.event # "charge.success")
          => /\ req[n].pc \in {"received", "done"}
             /\ req[n].saved = "none"
             /\ NoFulfilment(n)
             /\ PurchasesOf(ReferenceOf(n)) = {}
                \/ \E m \in Requests \ {n} : req[m].saved = "recorded"
                                            /\ ReferenceOf(m) = ReferenceOf(n))

\* C5 witness: a validly signed charge.failed event was answered 200 while
\* nothing was stored for its reference
C5_Witness ==
  \E n \in Requests :
    /\ ValidlySigned(n)
    /\ req[n].body.event = "charge.failed"
    /\ req[n].pc = "done"
    /\ req[n].responses = <<200>>
    /\ PurchasesOf(ReferenceOf(n)) = {}
    /\ ledger # <<>>

\* C6: a request generates or sends a unit only after its own save() has
\* completed (recorded, duplicate or failure)
C6_LedgerWriteBeforeFulfilment ==
  \A n \in Requests :
    ( \/ req[n].units # <<>>
      \/ req[n].sent # <<>>
      \/ req[n].ticketId # NoTicket
      \/ req[n].pc \in {"qrcode", "sharp", "send", "stalled"} )
    => req[n].saved # "none"

\* C6 witness: a unit is being generated in a request whose save() failed, and
\* another request has emailed a unit after its Purchase was recorded
C6_Witness ==
  \E n, m \in Requests :
    /\ req[n].saved = "failure" /\ req[n].pc = "qrcode"
    /\ req[m].saved = "recorded" /\ req[m].sent # <<>>

\* the units of a cart in line order and, within a line, index order
UnitsOfLine(line, quantity) == [k \in 1..quantity |-> [line |-> line, i |-> k - 1]]

RECURSIVE ExpandFrom(_, _)
ExpandFrom(cart, line) ==
  IF line > Len(cart) THEN <<>>
  ELSE UnitsOfLine(line, cart[line].quantity) \o ExpandFrom(cart, line + 1)

ExpandCart(cart) == ExpandFrom(cart, 1)

\* the (line, i) positions of the units a request has been through
Positions(units) == [k \in DOMAIN units |-> [line |-> units[k].line, i |-> units[k].i]]

IsPrefix(s, t) == Len(s) <= Len(t) /\ s = SubSeq(t, 1, Len(s))

\* the units a request has emailed
SentUnits(units) == SelectSeq(units, LAMBDA u : u.outcome = "sent")

\* C7: whatever step fails for a unit, the units of the cart are gone through in
\* order and, when the handler returns, every unit of the cart has been
\* attempted; one message has been sent for each unit whose own steps all
\* succeeded, carrying that unit's name
C7_FailureIsolation ==
  \A n \in Requests :
    (SuccessDelivery(n) /\ req[n].saved \in {"recorded", "failure"})
    => LET cart == req[n].body.data.metadata.cart
           emailed == SentUnits(req[n].units)
       IN /\ IsPrefix(Positions(req[n].units), ExpandCart(cart))
          /\ req[n].pc = "done" => Positions(req[n].units) = ExpandCart(cart)
          /\ Len(req[n].sent) = Len(emailed)
          /\ \A k \in DOMAIN emailed :
               req[n].sent[k].subject = cart[emailed[k].line].name

\* C7 witness: the handler returned after a cart of three units whose second
\* unit failed and whose first and third units were emailed
C7_Witness ==
  \E n \in Requests :
    /\ req[n].pc = "done"
    /\ Len(req[n].units) = 3
    /\ req[n].units[1].outcome = "sent"
    /\ req[n].units[2].outcome \in {"ticketId", "qrcode", "sharp", "send"}
    /\ req[n].units[3].outcome = "sent"
    /\ Len(req[n].sent) = 2

\* C8 as stated: every request whose signature verified and whose handler has
\* ended was answered 200, exactly once, whatever the event contains
C8_VerifiedAlwaysAnswered200 ==
  \A n \in Requests :
    (ValidlySigned(n) /\ req[n].pc \in {"done", "crashed"})
    => req[n].responses = <<200>>

\* C9 as stated: a request whose sgMail.send never returns has been
\* acknowledged all the same
C9_StallDoesNotBlockAcknowledgment ==
  \A n \in Requests : req[n].pc = "stalled" => req[n].responses = <<200>>

\* C10: after a save() that failed for another reason than a duplicate
\* reference the handler goes through the units of the cart in order, answers
\* nothing before the end, and ends having attempted every unit and answered
\* 200; a handler that returns without having attempted every unit of its cart
\* observed the duplicate
C10_LedgerFailureNotPropagated ==
  \A n \in Requests :
    SuccessDelivery(n)
    => LET all == ExpandCart(req[n].body.data.metadata.cart)
       IN /\ req[n].saved = "failure"
             => /\ req[n].pc \in {"loop", "qrcode", "sharp", "send", "stalled", "done"}
                /\ IsPrefix(Positions(req[n].units), all)
                /\ req[n].pc = "done" => /\ Positions(req[n].units) = all
                                         /\ req[n].responses = <<200>>
                /\ req[n].pc # "done" => req[n].responses = <<>>
          /\ (req[n].pc = "done" /\ Positions(req[n].units) # all)
             => req[n].saved = "duplicate"

\* C10 witness: a request whose save() failed on connectivity has emailed its
\* ticket and was answered 200
C10_Witness ==
  \E n \in Requests :
    /\ req[n].saved = "failure"
    /\ req[n].body.data.metadata.full_name # Undefined
    /\ req[n].pc = "done"
    /\ req[n].sent # <<>>
    /\ req[n].responses = <<200>>

\* the handler of request n went through the ticket loop and returned
Fulfilled(n) ==
  /\ SuccessDelivery(n)
  /\ req[n].saved \in {"recorded", "failure"}
  /\ req[n].pc = "done"

\* C11: a fulfilled event has attempted exactly sum(qi) units: for each cart
\* line exactly its quantity, with indices 0 .. quantity - 1 (none for a
\* quantity of zero), in line order and within a line in index order, and each
\* emailed unit carries the type and the name of its line
C11_ExactlySumOfQuantities ==
  \A n \in Requests :
    Fulfilled(n)
    => LET cart == req[n].body.data.metadata.cart
           u == req[n].units
           emailed == SentUnits(u)
       IN /\ Len(u) = SumQuantity(cart)
          /\ \A l \in DOMAIN cart :
               LET ofLine == {k \in DOMAIN u : u[k].line = l}
               IN /\ Cardinality(ofLine) = cart[l].quantity
                  /\ {u[k].i : k \in ofLine} = 0..(cart[l].quantity - 1)
          /\ \A k \in DOMAIN u : u[k].line \in DOMAIN cart
          /\ \A j, k \in DOMAIN u :
               j < k => \/ u[j].line < u[k].line
                        \/ u[j].line = u[k].line /\ u[j].i < u[k].i
          /\ \A k \in DOMAIN emailed :
               /\ req[n].sent[k].subject = cart[emailed[k].line].name
               /\ req[n].sent[k].ticketId[2] = ToUpperCase(cart[emailed[k].line].type)

\* C11 witness: a cart whose first line has quantity zero and whose second
\* line has quantity two was fulfilled with two emails
C11_Witness ==
  \E n \in Requests :
    /\ Fulfilled(n)
    /\ Len(req[n].body.data.metadata.cart) = 2
    /\ req[n].body.data.metadata.cart[1].quantity = 0
    /\ req[n].body.data.metadata.cart[2].quantity = 2
    /\ Len(req[n].units) = 2
    /\ Len(req[n].sent) = 2

\* C12: after a first delivery whose save() and whose every unit succeeded, the
\* ledger holds exactly one Purchase, with the reference, amount, buyer name and
\* buyer email of the event and an inventory equal to the cart line for line;
\* exactly sum(qi) emails were sent, all to the event's customer; the response
\* is 200
C12_FirstDeliveryFullyFulfilled ==
  \A n \in Requests :
    ( /\ Fulfilled(n)
      /\ req[n].saved = "recorded"
      /\ \A k \in DOMAIN req[n].units : req[n].units[k].outcome = "sent" )
    => LET data == req[n].body.data
           cart == data.metadata.cart
       IN /\ Cardinality(PurchasesOf(data.reference)) = 1
          /\ \A p \in PurchasesOf(data.reference) :
               /\ ledger[p].paystackReference = data.reference
               /\ ledger[p].totalAmount = data.amount
               /\ ledger[p].buyerName = data.metadata.full_name
               /\ ledger[p].buyerEmail = data.customer.email
               /\ Len(ledger[p].inventory) = Len(cart)
               /\ \A l \in DOMAIN cart :
                    /\ ledger[p].inventory[l].ticketType = cart[l].type
                    /\ ledger[p].inventory[l].quantity = cart[l].quantity
                    /\ ledger[p].inventory[l].name = cart[l].name
          /\ Len(req[n].sent) = SumQuantity(cart)
          /\ \A k \in DOMAIN req[n].sent : req[n].sent[k].to = data.customer.email
          /\ req[n].responses = <<200>>

\* C12 witness: the event abc123 of a@x.com with two regular tickets was
\* recorded, two emails went to a@x.com and the request was answered 200
C12_Witness ==
  \E n \in Requests :
    /\ Fulfilled(n)
    /\ req[n].saved = "recorded"
    /\ req[n].body.data.reference = "abc123"
    /\ req[n].body.data.metadata.cart = <<CartItem("regular", 2)>>
    /\ Len(req[n].sent) = 2
    /\ req[n].sent[1].to = "a@x.com" /\ req[n].sent[2].to = "a@x.com"
    /\ req[n].sent[1].ticketId[2] = "REGULAR"
    /\ ledger = <<NewPurchase(req[n].body)>>

\* the messages sent so far by the requests whose Purchase was recorded, each
\* with its request and its place in it
SentMessages ==
  {a \in Requests \X (1..MaxUnits) :
     req[a[1]].saved = "recorded" /\ a[2] \in DOMAIN req[a[1]].sent}

\* C13 as stated: the identifiers of any two units ever emailed for recorded
\* purchases, in one cart or in different requests, are distinct, and each is
\* ULES, the upper-cased ticket type and eight hexadecimal characters
C13_TicketIdsDistinct ==
  /\ \A a, b \in SentMessages :
       a # b => req[a[1]].sent[a[2]].ticketId # req[b[1]].sent[b[2]].ticketId
  /\ \A a \in SentMessages :
       LET id == req[a[1]].sent[a[2]].ticketId
       IN /\ Len(id) = 3
          /\ id[1] = "ULES"
          /\ id[2] \in {ToUpperCase(t) : t \in TicketTypes}
          /\ id[3] \in RandomHex

(* C14: once a Purchase is recorded, no step of any handler, the payment
   initialization included, changes or deletes it: every document of the
   collection is at the same place with the same fields after the step. *)
C14_PurchasesImmutable ==
  [][\A k \in DOMAIN ledger : k \in DOMAIN ledger' /\ ledger'[k] = ledger[k]]_vars

\* a purchase was recorded, a later delivery of the same reference was refused
\* and a payment was initialized: the collection still holds the one document
C14_Witness ==
  /\ Len(ledger) = 1
  /\ \E n, m \in Requests :
       /\ After(n, m)
       /\ req[n].saved = "recorded" /\ req[n].pc = "done"
       /\ req[m].saved = "duplicate" /\ req[m].pc = "done"
       /\ ledger[1] = NewPurchase(req[n].body)
  /\ pay[1].pc = "done"
  /\ pay[1].forwarded # <<>>

\* payment-initialization requests whose handler has run its synchronous start
PaymentsHandled == {p \in PayRequests : pay[p].pc \notin {"idle", "received"}}

\* email, name, amount or cart is missing from the body (undefined, or the
\* falsy "" and 0), or the cart is empty
MissingOrEmpty(body) ==
  \/ \E f \in PayFields : f \notin DOMAIN body
  \/ body.email = "" \/ body.name = "" \/ body.amount = 0
  \/ body.cart = <<>>

(* C15: a payment initialization with email, name, amount or cart missing, or
   with an empty cart, is answered 400 and nothing is sent to the provider;
   any other one sends the provider exactly one request, carrying the email,
   the amount and, as metadata, the name and the cart, and is answered 200
   with the provider's answer when the provider reports success, 500 when the
   provider reports failure or the call throws, and nothing before that. *)
C15_PaymentInitialization ==
  \A p \in PaymentsHandled :
    LET r == pay[p] IN
      IF MissingOrEmpty(r.body)
      THEN /\ r.forwarded = <<>>
           /\ r.pc = "done"
           /\ Len(r.responses) = 1 /\ r.responses[1].status = 400
      ELSE /\ Len(r.forwarded) = 1
           /\ r.forwarded[1].email = r.body.email
           /\ r.forwarded[1].amount = r.body.amount
           /\ r.forwarded[1].metadata = [full_name |-> r.body.name, cart |-> r.body.cart]
           /\ r.reply = NoReply => r.pc = "fetch" /\ r.responses = <<>>
           /\ r.reply = Thrown =>
                /\ r.pc = "done"
                /\ Len(r.responses) = 1 /\ r.responses[1].status = 500
           /\ r.reply \in ProviderReplies =>
                /\ r.pc = "done"
                /\ r.responses =
                     IF r.reply.status
                     THEN <<[status |-> 200, json |-> r.reply]>>
                     ELSE <<[status |-> 500, json |-> [message |-> r.reply.message]]>>

\* one request with an empty cart was refused and another, complete, was
\* forwarded and answered with the provider's success
C15_Witness ==
  \E p, q \in PayRequests :
    /\ pay[p].pc = "done"
    /\ PayFields \subseteq DOMAIN pay[p].body /\ pay[p].body.cart = <<>>
    /\ pay[p].body.email # "" /\ pay[p].body.name # "" /\ pay[p].body.amount # 0
    /\ pay[p].responses[1].status = 400
    /\ pay[q].pc = "done"
    /\ ~MissingOrEmpty(pay[q].body)
    /\ pay[q].reply \in ProviderReplies /\ pay[q].reply.status
    /\ pay[q].responses[1].status = 200

\* sgMail.send has been called for the unit request n is at
Dispatched(n) == req[n].pc \in {"send", "stalled"}

\* the identifier and the code image of the unit request n is at have been
\* made and its composite is awaited: the step that leaves this state for the
\* call of sgMail.send is the one at which the composite is made
Compositing(n) == req[n].pc = "sharp" /\ req[n].ticketId # NoTicket

\* one step of request n as far as emails are concerned
EmailStep(n) ==
  /\ (Dispatched(n)' /\ ~Dispatched(n)) =>
       /\ Compositing(n)
       /\ req'[n].line = req[n].line /\ req'[n].i = req[n].i
       /\ req'[n].units = req[n].units
  /\ req'[n].sent # req[n].sent =>
       /\ req[n].pc = "send"
       /\ Len(req'[n].sent) = Len(req[n].sent) + 1
       /\ req'[n].units =
            Append(req[n].units,
                   [line |-> req[n].line, i |-> req[n].i, outcome |-> "sent"])
  /\ (Len(req'[n].units) > Len(req[n].units) /\ ~Dispatched(n)) =>
       req'[n].sent = req[n].sent

(* C16: sgMail.send is called for a unit only when the identifier, the code
   image and the composite of that unit have been made; a message is sent only
   by that call, once, and ends the unit; a unit that ends without the call
   sends nothing; so the messages of a delivery are as many as its units whose
   steps all succeeded, at most one per unit and at most sum(qi). *)
C16_EmailOnlyAfterGeneration ==
  /\ [][\A n \in Requests : EmailStep(n)]_vars
  /\ [](\A n \in Requests :
          SuccessDelivery(n) =>
            /\ Len(req[n].sent) = Len(SentUnits(req[n].units))
            /\ Len(req[n].units) <= SumQuantity(CartOf(req[n]))
            /\ Len(req[n].sent) <= SumQuantity(CartOf(req[n])))

\* a delivery of three units has returned: the generation of one unit failed,
\* the other two were emailed
C16_Witness ==
  /\ req[1].pc = "done"
  /\ SuccessDelivery(1)
  /\ Len(req[1].units) = 3
  /\ \E k \in 1..3 : req[1].units[k].outcome \in {"qrcode", "sharp"}
  /\ Len(req[1].sent) = 2

\* a unit of request n is in progress: one of the awaits of its try block is
\* pending
InProgress(n) == req[n].pc \in {"qrcode", "sharp", "send", "stalled"}

\* the cart line and the index the loops of a request are at
Position(r) == [line |-> r.line, i |-> r.i]

(* C17: the units of a request are gone through one at a time in (line, index)
   order: the units that have finished are a prefix of the cart's units, each
   finished by its message being sent or its failure being caught, and the
   unit in progress, if any, is the one that follows them; a step that begins
   a unit is taken from the loop head, where no unit is in progress. *)
C17_UnitsStrictlySequential ==
  /\ [](\A n \in Requests :
          (SuccessDelivery(n) /\ req[n].pc \notin {"idle", "received"}) =>
            LET all == ExpandCart(CartOf(req[n]))
                done == Len(req[n].units)
            IN /\ IsPrefix(Positions(req[n].units), all)
               /\ InProgress(n) =>
                    /\ done < Len(all)
                    /\ Position(req[n]) = all[done + 1])
  /\ [][\A n \in Requests :
          /\ (InProgress(n)' /\ ~InProgress(n)) => req[n].pc = "loop"
          /\ (InProgress(n) /\ InProgress(n)') =>
               /\ Position(req[n])' = Position(req[n])
               /\ req'[n].units = req[n].units
          /\ (InProgress(n) /\ ~InProgress(n)') =>
               /\ req'[n].pc = "loop"
               /\ \E outcome \in {"sent", "qrcode", "sharp", "send"} :
                    req'[n].units =
                      Append(req[n].units,
                             [line |-> req[n].line, i |-> req[n].i,
                              outcome |-> outcome])]_vars

\* the second unit of a two-unit line is in progress after the first was
\* emailed
C17_Witness ==
  /\ SuccessDelivery(1)
  /\ InProgress(1)
  /\ req[1].line = 1 /\ req[1].i = 1
  /\ Len(req[1].units) = 1 /\ req[1].units[1].outcome = "sent"

\* request n has been answered
Answered(n) == req[n].responses # <<>>

(* C18: a webhook request is answered at most once, and only as the last thing
   its handler does: the 401 of a signature mismatch is sent before anything
   was written or generated, the 200 of the duplicate branch before anything
   was generated, and a request that has been answered takes no further step
   (a write to the collection or a step of a unit changes the request's own
   state), so it writes no Purchase, goes through no unit and sends no second
   response. *)
C18_AtMostOneResponse ==
  /\ [](\A n \in Requests :
          /\ Len(req[n].responses) <= 1
          /\ Answered(n) => req[n].pc = "done"
          /\ (Answered(n) /\ req[n].responses[1] = 401) =>
               ~req[n].verified /\ req[n].saved = "none" /\ NoFulfilment(n)
          /\ (Answered(n) /\ req[n].saved = "duplicate") =>
               req[n].responses = <<200>> /\ NoFulfilment(n))
  /\ [][\A n \in Requests :
          Answered(n) => req'[n] = req[n]]_vars

\* a delivery was recorded, fulfilled and answered 200 at the end of its
\* loop; a second delivery of the same reference was answered 200 from the
\* duplicate branch, and that was its only response
C18_Witness ==
  \E n, m \in Requests :
    /\ req[n].saved = "recorded" /\ req[n].sent # <<>>
    /\ req[n].responses = <<200>>
    /\ req[m].saved = "duplicate"
    /\ req[m].responses = <<200>>

\* what request n has persisted and fulfilled is what its own event says
OwnEffects(n) ==
  LET event == req[n].body
      cart == event.data.metadata.cart
      emailed == SentUnits(req[n].units)
  IN /\ req[n].saved # "duplicate"
     /\ req[n].saved = "recorded" =>
          /\ Cardinality(PurchasesOf(ReferenceOf(n))) = 1
          /\ \A k \in PurchasesOf(ReferenceOf(n)) : ledger[k] = NewPurchase(event)
     /\ req[n].saved \in {"none", "failure"} => PurchasesOf(ReferenceOf(n)) = {}
     /\ IsPrefix(Positions(req[n].units), ExpandCart(cart))
     /\ Len(req[n].sent) = Len(emailed)
     /\ \A k \in DOMAIN req[n].sent :
          /\ req[n].sent[k].to = event.data.customer.email
          /\ req[n].sent[k].full_name = event.data.metadata.full_name
          /\ req[n].sent[k].subject = cart[emailed[k].line].name
          /\ req[n].sent[k].ticketId[2] = ToUpperCase(cart[emailed[k].line].type)
     /\ req[n].pc = "done" =>
          /\ Positions(req[n].units) = ExpandCart(cart)
          /\ req[n].responses = <<200>>

\* no other request that has arrived carries the reference of request n
ReferenceIsOwn(n) ==
  \A m \in Requests \ {n} : req[m].pc # "idle" => ReferenceOf(m) # ReferenceOf(n)

(* C19: a delivery handled at the same time as deliveries of other references
   only is not refused as a duplicate; its Purchase, if recorded, is the one
   built from its own event and the only one of its reference; it goes
   through the units of its own cart; and every message it sends goes to the
   customer email of its own event, with its own buyer name and the name and
   type of its own cart line. *)
C19_ConcurrentDeliveriesIndependent ==
  \A n \in Requests :
    (/\ SuccessDelivery(n)
     /\ ReferenceIsOwn(n)
     /\ \E m \in Requests \ {n} : Concurrent(n, m) /\ SuccessDelivery(m))
    => OwnEffects(n)

\* two deliveries of different references were in flight together; both were
\* recorded and each has emailed its own customer
C19_Witness ==
  \E n, m \in Requests :
    /\ Concurrent(n, m)
    /\ ReferenceOf(n) # ReferenceOf(m)
    /\ req[n].saved = "recorded" /\ req[m].saved = "recorded"
    /\ req[n].pc = "done" /\ req[m].pc = "done"
    /\ Len(req[n].sent) = 1 /\ Len(req[m].sent) = 1
    /\ req[n].sent[1].to # req[m].sent[1].to

====
